---------------------------- MODULE Spec2Model ----------------------------
(***************************************************************************)
(* A model of awsbill2graphite.py: the Row accessors (region, interval,    *)
(* usage_type, end_time, amount), the timeseries patterns, MetricLedger,   *)
(* generate_metrics and s3_primary_manifests.                              *)
(*                                                                         *)
(* Python strings are TLA+ strings and are taken apart with Len, SubSeq    *)
(* and \o.  An optional string (a value that may be Python's None) is a    *)
(* sequence of at most one string: None is << >>, the string s is <<s>>.   *)
(* A float is an exact integer number of millionths.                       *)
(***************************************************************************)
EXTENDS Integers, Sequences, FiniteSets, TLC

VARIABLES
    row,         \* SpecRow: the Row object under test (content, _usage_type)
    calls,       \* SpecRow: number of accessor calls made on row so far
    outcome,     \* SpecRow: what the last accessor call did
    stream,      \* Spec: the rows of the CSV file not read yet
    processed,   \* Spec: the rows whose MetricLedger.process() call returned
    timeseries,  \* Spec: MetricLedger._timeseries
    pc,          \* Spec: where generate_metrics stands
    sink,        \* Spec: the lines written to output_file
    objects,     \* SpecManifest: the bucket listing handed to s3_primary_manifests
    primaries    \* SpecManifest: what s3_primary_manifests did with it

vars == <<row, calls, outcome, stream, processed, timeseries, pc, sink,
          objects, primaries>>

---------------------------------------------------------------------------
(* Python values and string methods                                        *)

None == << >>

Some(s) == <<s>>

\* a dict (a defaultdict(float), a bag of lines) with no key yet
EmptySeries == [k \in {} |-> 0]

Char(s, i) == SubSeq(s, i, i)

Digits == "1234567890"

UpperCase == "ABCDEFGHIJKLMNOPQRSTUVWXYZ"

LowerCase == "abcdefghijklmnopqrstuvwxyz"

\* c in chars, for a one-character string c
CharIn(c, chars) == \E i \in 1..Len(chars) : Char(chars, i) = c

\* str.isdigit() of a one-character string
isdigit(c) == CharIn(c, "0123456789")

\* str.isupper(): at least one cased character and no lowercase one
isupper(s) ==
    /\ \E i \in 1..Len(s) : CharIn(Char(s, i), UpperCase)
    /\ \A i \in 1..Len(s) : ~CharIn(Char(s, i), LowerCase)

startswith(s, p) == Len(s) >= Len(p) /\ SubSeq(s, 1, Len(p)) = p

endswith(s, p) == Len(s) >= Len(p) /\ SubSeq(s, Len(s) - Len(p) + 1, Len(s)) = p

\* the positions at which sub occurs in s
Occurrences(s, sub) ==
    {i \in 1..(Len(s) - Len(sub) + 1) : SubSeq(s, i, i + Len(sub) - 1) = sub}

\* sub in s
contains(s, sub) == Occurrences(s, sub) # {}

Min(S) == CHOOSE x \in S : \A y \in S : x <= y

\* s.split(sep, 1): one or two pieces, cut at the first occurrence of sep
split1(s, sep) ==
    IF ~contains(s, sep)
    THEN <<s>>
    ELSE LET i == Min(Occurrences(s, sep))
         IN  <<SubSeq(s, 1, i - 1), SubSeq(s, i + Len(sep), Len(s))>>

RECURSIVE replace(_, _, _)
\* s.replace(old, new) for a one-character old
replace(s, old, new) ==
    IF s = "" THEN ""
    ELSE (IF Char(s, 1) = old THEN new ELSE Char(s, 1))
         \o replace(SubSeq(s, 2, Len(s)), old, new)

---------------------------------------------------------------------------
(* The module's tables                                                     *)

REGION_NAMES ==
    [loc \in {"US East (N. Virginia)", "US West (N. California)",
              "US West (Oregon)", "EU (Ireland)", "EU (Frankfurt)",
              "Asia Pacific (Tokyo)", "Asia Pacific (Seoul)",
              "Asia Pacific (Singapore)", "Asia Pacific (Sydney)",
              "South America (Sao Paulo)"} |->
        CASE loc = "US East (N. Virginia)" -> "us-east-1"
          [] loc = "US West (N. California)" -> "us-west-1"
          [] loc = "US West (Oregon)" -> "us-west-2"
          [] loc = "EU (Ireland)" -> "eu-west-1"
          [] loc = "EU (Frankfurt)" -> "eu-central-1"
          [] loc = "Asia Pacific (Tokyo)" -> "ap-northeast-1"
          [] loc = "Asia Pacific (Seoul)" -> "ap-northeast-2"
          [] loc = "Asia Pacific (Singapore)" -> "ap-southeast-1"
          [] loc = "Asia Pacific (Sydney)" -> "ap-southeast-2"
          [] loc = "South America (Sao Paulo)" -> "sa-east-1"]

EBS_TYPES ==
    [v \in {"Magnetic", "General Purpose", "Provisioned IOPS",
            "Unknown Storage"} |->
        CASE v = "Magnetic" -> "standard"
          [] v = "General Purpose" -> "gp2"
          [] v = "Provisioned IOPS" -> "io1"
          [] v = "Unknown Storage" -> "unknown"]

RDS_STORAGE_TYPES ==
    [d \in {"Provisioned IOPS Storage", "provisioned GP2 storage"} |->
        CASE d = "Provisioned IOPS Storage" -> "io1"
          [] d = "provisioned GP2 storage" -> "gp2"]

\* The orders in which RDS_STORAGE_TYPES.keys() can list the two keys: the
\* order of a dict's keys is a matter of the interpreter's string hashing.
RdsKeyOrders ==
    {<<"Provisioned IOPS Storage", "provisioned GP2 storage">>,
     <<"provisioned GP2 storage", "Provisioned IOPS Storage">>}

---------------------------------------------------------------------------
(* parse_datetime, and the datetime arithmetic Row.interval() relies on    *)

DigitValue(c) == CHOOSE d \in 0..9 : Char("0123456789", d + 1) = c

RECURSIVE int(_)
\* int(s) of a string of decimal digits
int(s) ==
    IF s = "" THEN 0
    ELSE 10 * int(SubSeq(s, 1, Len(s) - 1)) + DigitValue(Char(s, Len(s)))

\* timestamp[a:b] with Python's 0-based, end-exclusive indices
Slice(s, a, b) == SubSeq(s, a + 1, b)

\* A datetime is <<year, month, day, hour, minute, second>>.
parse_datetime(timestamp) ==
    <<int(Slice(timestamp, 0, 4)), int(Slice(timestamp, 5, 7)),
      int(Slice(timestamp, 8, 10)), int(Slice(timestamp, 11, 13)),
      int(Slice(timestamp, 14, 16)), int(Slice(timestamp, 17, 19))>>

IsLeap(y) == y % 4 = 0 /\ (y % 100 # 0 \/ y % 400 = 0)

\* the proleptic Gregorian ordinal of a date (datetime.toordinal)
Ordinal(y, m, d) ==
    LET before == <<0, 31, 59, 90, 120, 151, 181, 212, 243, 273, 304, 334>>
        yy == y - 1
    IN  yy * 365 + yy \div 4 - yy \div 100 + yy \div 400
        + before[m] + (IF m > 2 /\ IsLeap(y) THEN 1 ELSE 0) + d

\* the second of its day at which dt falls
SecondOfDay(dt) == (dt[4] * 60 + dt[5]) * 60 + dt[6]

\* (b - a).total_seconds(): the timedelta's days and seconds, in seconds
total_seconds(a, b) ==
    (Ordinal(b[1], b[2], b[3]) - Ordinal(a[1], a[2], a[3])) * 86400
    + (SecondOfDay(b) - SecondOfDay(a))

---------------------------------------------------------------------------
(* class Row                                                               *)

\* Row.__init__: the columns of one CSV line, and no usage type yet
NewRow(content) == [content |-> content, usage_type_ |-> None]

\* Faulty variant of region: takes any non-empty availability zone.
region_AnyAZ(r) ==
    IF r.content["product/location"] \in DOMAIN REGION_NAMES
    THEN REGION_NAMES[r.content["product/location"]]
    ELSE IF r.content["lineItem/AvailabilityZone"] # ""
    THEN r.content["lineItem/AvailabilityZone"]
    ELSE "noregion"

\* Faulty variant of region: tries the availability zone before the location.
region_AZFirst(r) ==
    LET az == r.content["lineItem/AvailabilityZone"]
    IN  IF az # "" /\ CharIn(Char(az, Len(az)), Digits)
        THEN az
        ELSE IF r.content["product/location"] \in DOMAIN REGION_NAMES
        THEN REGION_NAMES[r.content["product/location"]]
        ELSE "noregion"

\* Row.region
region(r) ==
    LET az == r.content["lineItem/AvailabilityZone"]
    IN  IF r.content["product/location"] \in DOMAIN REGION_NAMES
        THEN REGION_NAMES[r.content["product/location"]]
        ELSE IF az # "" /\ CharIn(Char(az, Len(az)), Digits)
        THEN az
        ELSE "noregion"

\* Row.interval
interval(r) ==
    LET parts == split1(r.content["identity/TimeInterval"], "/")
    IN  total_seconds(parse_datetime(parts[1]), parse_datetime(parts[2]))

\* Row.end_time
end_time(r) ==
    parse_datetime(split1(r.content["identity/TimeInterval"], "/")[2])

\* float(s) of a decimal literal: sign, digits, and at most six digits
\* after the point, as a number of millionths
float(s) ==
    LET neg == startswith(s, "-")
        body == IF neg THEN SubSeq(s, 2, Len(s)) ELSE s
        parts == split1(body, ".")
        frac == IF Len(parts) = 2 THEN parts[2] ELSE ""
        padded == frac \o SubSeq("000000", 1, 6 - Len(frac))
        v == int(parts[1]) * 1000000 + int(padded)
    IN  IF neg THEN 0 - v ELSE v

\* Row.amount
amount(r) == float(r.content["lineItem/BlendedCost"])

---------------------------------------------------------------------------
(* Row.usage_type and its helpers.  A helper's result, and a call's, is    *)
(* [ut, exc]: the optional string returned when exc = "", and otherwise    *)
(* the name of the exception raised.                                       *)

Returned(ut) == [ut |-> ut, exc |-> ""]

Raised(e) == [ut |-> None, exc |-> e]

\* Row._usage_type_ec2_instance
usage_type_ec2_instance(r) ==
    LET splut == split1(r.content["lineItem/UsageType"], ":")
    IN  IF Len(splut) < 2
        THEN Returned(None)
        ELSE Returned(Some("ec2-instance." \o replace(splut[2], ".", "-")))

\* Faulty variant of EbsTypeOf: gp2 and io1 exchanged.
EbsTypeOf_Swapped(v) ==
    CASE v = "General Purpose" -> "io1"
      [] v = "Provisioned IOPS" -> "gp2"
      [] OTHER -> EBS_TYPES[v]

\* EBS_TYPES[v] for a key v of the table
EbsTypeOf(v) == EBS_TYPES[v]

\* Row._usage_type_ebs_storage
usage_type_ebs_storage(r) ==
    IF "product/volumeType" \in DOMAIN r.content
    THEN IF r.content["product/volumeType"] \in DOMAIN EBS_TYPES
         THEN Returned(Some("ebs.storage."
                            \o EbsTypeOf(r.content["product/volumeType"])))
         ELSE Raised("KeyError")
    ELSE Returned(Some("ebs.storage.unknown"))

\* Row._usage_type_rds_instance
usage_type_rds_instance(r) ==
    LET splut == split1(r.content["lineItem/UsageType"], ":")
    IN  IF Len(splut) < 2
        THEN Returned(None)
        ELSE Returned(Some("rds-instance." \o replace(splut[2], ".", "-")))

\* Row._usage_type_rds_storage, with keys the order of RDS_STORAGE_TYPES.keys():
\* the last key found in the description decides
usage_type_rds_storage(r, keys) ==
    LET line_item_description == r.content["lineItem/LineItemDescription"]
        v0 == ""
        v1 == IF contains(line_item_description, keys[1])
              THEN RDS_STORAGE_TYPES[keys[1]] ELSE v0
        volume_type == IF contains(line_item_description, keys[2])
                       THEN RDS_STORAGE_TYPES[keys[2]] ELSE v1
    IN  IF volume_type = ""
        THEN Raised("ValueError")
        ELSE Returned(Some("rds.storage." \o volume_type))

\* Row._usage_type_elasticache_instance
usage_type_elasticache_instance(r) ==
    LET splut == split1(r.content["lineItem/UsageType"], ":")
    IN  IF Len(splut) < 2
        THEN Returned(None)
        ELSE Returned(Some("elasticache-instance."
                           \o replace(splut[2], ".", "-")))

\* the test of lines 442-447: the text before the first dash looks like a
\* region code such as "APN1"
IsRegionCode(t) ==
    /\ Len(t) = 4
    /\ SubSeq(t, 1, 2) \in {"US", "EU", "AP", "SA"}
    /\ isupper(t)
    /\ isdigit(Char(t, 4))

\* Faulty variant of csv_usage_type: never drops a region code.
csv_usage_type_NoStrip(r) ==
    Returned(Some(split1(r.content["lineItem/UsageType"], "-")[1]))

\* lines 441-451 of Row.usage_type: the usage type the rules are tried on
csv_usage_type(r) ==
    LET splut == split1(r.content["lineItem/UsageType"], "-")
    IN  IF IsRegionCode(splut[1])
        THEN IF Len(splut) < 2
             THEN Raised("IndexError")
             ELSE Returned(Some(splut[2]))
        ELSE Returned(Some(splut[1]))

\* lines 455-479 of Row.usage_type: the rules in the order they are tried,
\* each with its test of the usage type and the result it assigns
Rules(r, csv, keys) ==
    <<[applies |-> startswith(csv, "BoxUsage:"),
       res |-> usage_type_ec2_instance(r)],
      [applies |-> csv = "EBS:VolumeP-IOPS.piops",
       res |-> Returned(Some("ebs.piops"))],
      [applies |-> startswith(csv, "EBS:VolumeUsage"),
       res |-> usage_type_ebs_storage(r)],
      [applies |-> csv = "EBS:VolumeIOUsage",
       res |-> Returned(Some("ebs.iops"))],
      [applies |-> csv = "EBS:SnapshotUsage",
       res |-> Returned(Some("ebs.snapshot"))],
      [applies |-> startswith(csv, "InstanceUsage:")
                   \/ startswith(csv, "Multi-AZUsage:"),
       res |-> usage_type_rds_instance(r)],
      [applies |-> csv = "RDS:PIOPS" \/ csv = "RDS:Multi-AZ-PIOPS",
       res |-> Returned(Some("rds.piops"))],
      [applies |-> startswith(csv, "RDS:") /\ endswith(csv, "Storage"),
       res |-> usage_type_rds_storage(r, keys)],
      [applies |-> startswith(csv, "NodeUsage:"),
       res |-> usage_type_elasticache_instance(r)]>>

RECURSIVE Cascade(_, _, _)
\* lines 452-479 of Row.usage_type from rule i on, st being [ut, exc] so
\* far: a rule that applies overwrites the usage type; an exception leaves
\* the usage type as it was and ends the cascade
Cascade(st, rules, i) ==
    IF i > Len(rules) \/ st.exc # "" THEN st
    ELSE Cascade(IF ~rules[i].applies THEN st
                 ELSE IF rules[i].res.exc # ""
                 THEN [ut |-> st.ut, exc |-> rules[i].res.exc]
                 ELSE rules[i].res,
                 rules, i + 1)

\* Row.usage_type: [row, ut, exc], the Row after the call and what the call
\* returned or raised
usage_type(r, keys) ==
    IF r.usage_type_ # None
    THEN [row |-> r, ut |-> r.usage_type_, exc |-> ""]
    ELSE LET csv == csv_usage_type(r)
         IN  IF csv.exc # ""
             THEN [row |-> r, ut |-> None, exc |-> csv.exc]
             ELSE LET c == Cascade(Returned(Some("")),
                                   Rules(r, csv.ut[1], keys), 1)
                  IN  [row |-> [r EXCEPT !.usage_type_ = c.ut],
                       ut |-> IF c.exc = "" THEN c.ut ELSE None,
                       exc |-> c.exc]

---------------------------------------------------------------------------
(* class MetricFormatter                                                   *)

RECURSIVE str(_)
\* the decimal digits of a natural number
str(n) ==
    IF n < 10 THEN Char("0123456789", n + 1)
    ELSE str(n \div 10) \o Char("0123456789", (n % 10) + 1)

\* "{:04f}".format(v): a minimum width of 4, zero-padded, and the six
\* fractional digits that "f" gives when no precision is stated
format_04f(v) ==
    LET a == IF v < 0 THEN 0 - v ELSE v
        frac == str(a % 1000000)
        text == (IF v < 0 THEN "-" ELSE "") \o str(a \div 1000000) \o "."
                \o SubSeq("000000", 1, 6 - Len(frac)) \o frac
    IN  SubSeq("0000", 1, 4 - Len(text)) \o text

\* timestamp.strftime('%s'), for a process whose time zone is UTC
strftime_s(dt) ==
    str((Ordinal(dt[1], dt[2], dt[3]) - 719163) * 86400 + SecondOfDay(dt))

\* MetricFormatter.__init__: self._initial_pieces, given what
\* os.getenv("AWSBILL_METRIC_PREFIX") returns (None when the variable is unset)
initial_pieces(env) == IF env # Some("") THEN <<env>> ELSE <<Some("awsbill")>>

\* MetricFormatter.format: [ut, exc], the line, or the TypeError of joining None
format(pieces, ts_id, timestamp, value) ==
    IF pieces[1] = None
    THEN Raised("TypeError")
    ELSE Returned(Some(pieces[1][1] \o "." \o ts_id \o " " \o format_04f(value)
                       \o " " \o strftime_s(timestamp) \o "\n"))

---------------------------------------------------------------------------
(* s3_primary_manifests.  An S3 object is its key.                         *)

\* the characters of the keys, in the order of their codes
AsciiOrder ==
    "-./0123456789:ABCDEFGHIJKLMNOPQRSTUVWXYZ_abcdefghijklmnopqrstuvwxyz"

Ord(c) == Min({i \in 1..Len(AsciiOrder) : Char(AsciiOrder, i) = c})

\* a < b for two str values
StrLess(a, b) ==
    LET n == IF Len(a) < Len(b) THEN Len(a) ELSE Len(b)
        diff == {i \in 1..n : Char(a, i) # Char(b, i)}
    IN  IF diff = {} THEN Len(a) < Len(b)
        ELSE Ord(Char(a, Min(diff))) < Ord(Char(b, Min(diff)))

\* x put into the sorted list s before the first of the positions later, those
\* of the elements x precedes, and so after the elements it ties with:
\* list.sort is stable
InsertSorted(x, s, later) ==
    LET pos == IF later = {} THEN Len(s) + 1 ELSE Min(later)
    IN  SubSeq(s, 1, pos - 1) \o <<x>> \o SubSeq(s, pos, Len(s))

KeyAfter(a, b) == StrLess(b, a)

Shorter(a, b) == Len(a) < Len(b)

\* Faulty variant of sort_by_key_reversed: the manifests stay in listing order.
sort_by_key_reversed_Skipped(s) == s

RECURSIVE sort_by_key_reversed(_)
\* manifests.sort(key=attrgetter("key"), reverse=True)
sort_by_key_reversed(s) ==
    IF s = << >> THEN << >>
    ELSE LET x == s[Len(s)]
             rest == sort_by_key_reversed(SubSeq(s, 1, Len(s) - 1))
         IN  InsertSorted(x, rest, {j \in 1..Len(rest) : KeyAfter(x, rest[j])})

RECURSIVE sort_by_len(_)
\* manifests.sort(key=lambda a: len(a.key))
sort_by_len(s) ==
    IF s = << >> THEN << >>
    ELSE LET x == s[Len(s)]
             rest == sort_by_len(SubSeq(s, 1, Len(s) - 1))
         IN  InsertSorted(x, rest, {j \in 1..Len(rest) : Shorter(x, rest[j])})

AllDigits(s) == \A i \in 1..Len(s) : isdigit(Char(s, i))

\* the positions at which "/(\d{8}-\d{8})/" matches in key
DateRangeMatches(key) ==
    {i \in 1..(Len(key) - 18) :
        /\ Char(key, i) = "/"
        /\ AllDigits(SubSeq(key, i + 1, i + 8))
        /\ Char(key, i + 9) = "-"
        /\ AllDigits(SubSeq(key, i + 10, i + 17))
        /\ Char(key, i + 18) = "/"}

\* re.search("/(\d{8}-\d{8})/", key): group 1 of the leftmost match, or None
re_search(key) ==
    IF DateRangeMatches(key) = {} THEN None
    ELSE Some(SubSeq(key, Min(DateRangeMatches(key)) + 1,
                     Min(DateRangeMatches(key)) + 17))

\* line 109: the objects whose key ends with "Manifest.json", in their order
ManifestsOf(objs) == SelectSeq(objs, LAMBDA k : endswith(k, "Manifest.json"))

\* lines 113-117: the billing cycles the manifests' keys name
Cycles(manifests) ==
    {re_search(manifests[i])[1] :
        i \in {j \in 1..Len(manifests) : re_search(manifests[j]) # None}}

RECURSIVE sorted(_)
\* sorted(list(cycles))
sorted(S) ==
    IF S = {} THEN << >>
    ELSE LET top == CHOOSE x \in S : \A y \in S : ~StrLess(x, y)
         IN  Append(sorted(S \ {top}), top)

\* lines 120-131: the primaries among the manifests, sorted by key
\* backwards, given the cycles found: [keys, exc]
PickPrimaries(manifests, cycles) ==
    LET all == sorted(cycles)
        tail == SubSeq(all, IF Len(all) < 2 THEN 1 ELSE Len(all) - 1, Len(all))
        last_two_cycles == IF Len(tail) < 2 THEN tail \o tail ELSE tail
        kept == SelectSeq(manifests,
                          LAMBDA m : \/ contains(m, last_two_cycles[1])
                                     \/ contains(m, last_two_cycles[2]))
        by_len == sort_by_len(kept)
    IN  IF last_two_cycles[1] = last_two_cycles[2]
        THEN IF Len(by_len) < 1
             THEN [keys |-> << >>, exc |-> "IndexError"]
             ELSE [keys |-> <<by_len[1]>>, exc |-> ""]
        ELSE IF Len(by_len) < 2
             THEN [keys |-> << >>, exc |-> "IndexError"]
             ELSE [keys |-> <<by_len[2], by_len[1]>>, exc |-> ""]

\* Faulty variant of s3_primary_manifests: a single cycle is an error too.
s3_primary_manifests_TwoCycles(objs) ==
    LET manifests == sort_by_key_reversed(ManifestsOf(objs))
    IN  IF Cardinality(Cycles(manifests)) < 2
        THEN [keys |-> << >>, exc |-> "Exception"]
        ELSE PickPrimaries(manifests, Cycles(manifests))

\* s3_primary_manifests: [keys, exc], the keys of the objects returned, or
\* the exception raised
s3_primary_manifests(objs) ==
    LET manifests == sort_by_key_reversed(ManifestsOf(objs))
    IN  IF Cardinality(Cycles(manifests)) = 0
        THEN [keys |-> << >>, exc |-> "Exception"]
        ELSE PickPrimaries(manifests, Cycles(manifests))

---------------------------------------------------------------------------
(* The rows the model draws from                                           *)

Hour1 == "2016-04-04T05:00:00Z/2016-04-04T06:00:00Z"

Hour2 == "2016-04-04T06:00:00Z/2016-04-04T07:00:00Z"

TwoHours == "2016-04-04T05:00:00Z/2016-04-04T07:00:00Z"

\* the columns of a CSV file without a product/volumeType column
Content(time, type, usage, desc, cost, loc, az) ==
    [col \in {"identity/TimeInterval", "lineItem/LineItemType",
              "lineItem/UsageType", "lineItem/LineItemDescription",
              "lineItem/BlendedCost", "product/location",
              "lineItem/AvailabilityZone"} |->
        CASE col = "identity/TimeInterval" -> time
          [] col = "lineItem/LineItemType" -> type
          [] col = "lineItem/UsageType" -> usage
          [] col = "lineItem/LineItemDescription" -> desc
          [] col = "lineItem/BlendedCost" -> cost
          [] col = "product/location" -> loc
          [] col = "lineItem/AvailabilityZone" -> az]

\* the same columns and a product/volumeType column; vol = None for a file
\* without that column
WithVolume(c, vol) ==
    IF vol = None THEN c
    ELSE [col \in DOMAIN c \cup {"product/volumeType"} |->
            IF col = "product/volumeType" THEN vol[1] ELSE c[col]]

\* what may stand before the usage type proper: nothing, a region code and
\* its dash, or something that only resembles one
UsagePrefixes == {"", "USW2-", "APN1-", "EU-", "USw2-", "USWX-"}

UsageBodies ==
    {"BoxUsage:c3.2xlarge", "BoxUsage:m4.2xlarge", "BoxUsage",
     "EBS:VolumeP-IOPS.piops", "EBS:VolumeUsage", "EBS:VolumeUsage.gp2",
     "EBS:VolumeIOUsage", "EBS:SnapshotUsage",
     "InstanceUsage:db.m3.large", "Multi-AZUsage:db.r3.large",
     "RDS:PIOPS", "RDS:Multi-AZ-PIOPS", "RDS:GP2-Storage", "RDS:PIOPS-Storage",
     "RDS:StorageUsage", "NodeUsage:cache.m3.medium",
     "DataTransfer-Out-Bytes", "Requests-RBP", "Request", "USE1-AWS-In-Bytes"}

\* usage types: every prefix before every body, and a bare region code
UsageTypes == {p \o b : p \in UsagePrefixes, b \in UsageBodies} \cup {"USW2"}

VolumeTypes ==
    {None, Some("Magnetic"), Some("General Purpose"), Some("Provisioned IOPS"),
     Some("Unknown Storage"), Some(""), Some("Cold HDD")}

Descriptions ==
    {"$0.138 per GB-month of Provisioned IOPS Storage",
     "$0.127 per GB-month of provisioned GP2 storage",
     "$0.11 per GB-month of magnetic storage",
     "Provisioned IOPS Storage or provisioned GP2 storage"}

Locations == {"US West (Oregon)", "Asia Pacific (Tokyo)", "Any", ""}

Zones == {"", "us-east-1", "us-east-1a", "ap-northeast-2", "eu-west-1b"}

\* the rows of SpecRow: every usage type with every volume type and
\* description, and every location with every availability zone
RowInputs ==
    {WithVolume(Content(Hour1, "Usage", u, d, "0.5", "Any", ""), v) :
        u \in UsageTypes, v \in VolumeTypes, d \in Descriptions}
    \cup
    {Content(Hour1, "Usage", "BoxUsage:c3.2xlarge", "", "0.5", l, z) :
        l \in Locations, z \in Zones}

---------------------------------------------------------------------------
(* SpecRow: calls of usage_type() and region() on one Row                  *)

\* how many accessor calls the model makes on one Row
MaxCalls == 2

NoOutcome == [op |-> "none", ut |-> None, exc |-> ""]

\* MetricLedger.__init__: no series
EmptyLedger == [k \in {} |-> 0]

\* s3_primary_manifests not called yet
NoPrimaries == [called |-> FALSE, keys |-> << >>, exc |-> ""]

LedgerIdle ==
    /\ stream = << >>
    /\ processed = << >>
    /\ timeseries = EmptyLedger
    /\ pc = "idle"
    /\ sink = EmptySeries

ManifestIdle ==
    /\ objects = << >>
    /\ primaries = NoPrimaries

RowIdle ==
    /\ row = NewRow(Content(Hour1, "Usage", "", "", "0", "", ""))
    /\ calls = 0
    /\ outcome = NoOutcome

InitRow ==
    /\ row \in {NewRow(c) : c \in RowInputs}
    /\ calls = 0
    /\ outcome = NoOutcome
    /\ LedgerIdle
    /\ ManifestIdle

\* row.usage_type()
CallUsageType ==
    /\ calls < MaxCalls
    /\ \E keys \in RdsKeyOrders :
          LET res == usage_type(row, keys)
          IN  /\ row' = res.row
              /\ outcome' = [op |-> "usage_type", ut |-> res.ut, exc |-> res.exc]
    /\ calls' = calls + 1
    /\ UNCHANGED <<stream, processed, timeseries, pc, sink, objects, primaries>>

\* row.region()
CallRegion ==
    /\ calls < MaxCalls
    /\ outcome' = [op |-> "region", ut |-> Some(region(row)), exc |-> ""]
    /\ calls' = calls + 1
    /\ UNCHANGED <<row, stream, processed, timeseries, pc, sink, objects,
                   primaries>>

NextRow == CallUsageType \/ CallRegion

SpecRow == InitRow /\ [][NextRow]_vars

---------------------------------------------------------------------------
(* The timeseries patterns, in the order of new_metric_ledger              *)

\* Faulty variant of new_metric_ledger: the catch-all pattern comes first.
new_metric_ledger_TotalFirst ==
    <<"TsRegionTotal", "TsInstanceType", "TsEbsStorage", "TsEbsPiops",
      "TsEbsIops", "TsEbsSnapshot", "TsRdsInstanceType", "TsRdsStorage",
      "TsRdsPiops", "TsElasticacheInstanceType">>

\* Faulty variant of new_metric_ledger: the ledger lacks the catch-all pattern.
new_metric_ledger_NoTotal ==
    <<"TsInstanceType", "TsEbsStorage", "TsEbsPiops", "TsEbsIops",
      "TsEbsSnapshot", "TsRdsInstanceType", "TsRdsStorage", "TsRdsPiops",
      "TsElasticacheInstanceType">>

new_metric_ledger ==
    <<"TsInstanceType", "TsEbsStorage", "TsEbsPiops", "TsEbsIops",
      "TsEbsSnapshot", "TsRdsInstanceType", "TsRdsStorage", "TsRdsPiops",
      "TsElasticacheInstanceType", "TsRegionTotal">>

\* what a pattern's match() tests of the usage type: a prefix, or the whole
PatternPrefix ==
    [p \in {"TsInstanceType", "TsEbsStorage", "TsRdsInstanceType",
            "TsRdsStorage", "TsElasticacheInstanceType"} |->
        CASE p = "TsInstanceType" -> "ec2-instance."
          [] p = "TsEbsStorage" -> "ebs.storage."
          [] p = "TsRdsInstanceType" -> "rds-instance."
          [] p = "TsRdsStorage" -> "rds.storage."
          [] p = "TsElasticacheInstanceType" -> "elasticache-instance."]

PatternExact ==
    [p \in {"TsEbsPiops", "TsEbsIops", "TsEbsSnapshot", "TsRdsPiops"} |->
        CASE p = "TsEbsPiops" -> "ebs.piops"
          [] p = "TsEbsIops" -> "ebs.iops"
          [] p = "TsEbsSnapshot" -> "ebs.snapshot"
          [] p = "TsRdsPiops" -> "rds.piops"]

\* <pattern>.match(row): [row, matched, exc], the Row after the call, whether
\* the result is true, and the exception raised if any.  TsInstanceType
\* answers None for a usage type that is empty or None; the other patterns
\* call a string method on the usage type, which fails on None.
match(p, r, keys) ==
    IF p = "TsRegionTotal"
    THEN [row |-> r, matched |-> TRUE, exc |-> ""]
    ELSE LET u == usage_type(r, keys)
         IN  IF u.exc # ""
             THEN [row |-> u.row, matched |-> FALSE, exc |-> u.exc]
             ELSE IF u.ut = None
             THEN [row |-> u.row, matched |-> FALSE,
                   exc |-> IF p = "TsInstanceType" THEN "" ELSE "AttributeError"]
             ELSE [row |-> u.row,
                   matched |-> IF p \in DOMAIN PatternPrefix
                               THEN startswith(u.ut[1], PatternPrefix[p])
                               ELSE u.ut[1] = PatternExact[p],
                   exc |-> ""]

\* <pattern>.metric_names(row), called after match() returned true
metric_names(p, r, keys) ==
    IF p = "TsRegionTotal"
    THEN <<"total-cost." \o region(r)>>
    ELSE IF p \in DOMAIN PatternExact
    THEN <<region(r) \o "." \o PatternExact[p]>>
    ELSE <<region(r) \o "." \o usage_type(r, keys).ut[1]>>

---------------------------------------------------------------------------
(* class MetricLedger                                                      *)

\* Faulty variant of Accumulate: stores the amount instead of adding it.
Accumulate_Overwrite(ts, metric, t, a) ==
    LET inner == IF metric \in DOMAIN ts THEN ts[metric] ELSE EmptySeries
    IN  [m \in DOMAIN ts \cup {metric} |->
            IF m = metric
            THEN [k \in DOMAIN inner \cup {t} |-> IF k = t THEN a ELSE inner[k]]
            ELSE ts[m]]

\* self._timeseries[metric][t] += a, on defaultdicts: a missing series is
\* created empty and a missing value starts at 0.0
Accumulate(ts, metric, t, a) ==
    LET inner == IF metric \in DOMAIN ts THEN ts[metric] ELSE EmptySeries
        old == IF t \in DOMAIN inner THEN inner[t] ELSE 0
    IN  [m \in DOMAIN ts \cup {metric} |->
            IF m = metric
            THEN [k \in DOMAIN inner \cup {t} |->
                    IF k = t THEN old + a ELSE inner[k]]
            ELSE ts[m]]

RECURSIVE AccumulateAll(_, _, _, _)
\* the inner loop of process: every name of names gets the row's amount
AccumulateAll(ts, names, r, i) ==
    IF i > Len(names) THEN ts
    ELSE AccumulateAll(Accumulate(ts, names[i], end_time(r), amount(r)),
                       names, r, i + 1)

RECURSIVE ProcessPatterns(_, _, _, _)
\* the outer loop of process from pattern i on: [timeseries, exc]
ProcessPatterns(ts, r, i, keys) ==
    IF i > Len(new_metric_ledger) THEN [timeseries |-> ts, exc |-> ""]
    ELSE LET pat == new_metric_ledger[i]
             m == match(pat, r, keys)
         IN  IF m.exc # "" THEN [timeseries |-> ts, exc |-> m.exc]
             ELSE IF m.matched
             THEN ProcessPatterns(
                      AccumulateAll(ts, metric_names(pat, m.row, keys), m.row, 1),
                      m.row, i + 1, keys)
             ELSE ProcessPatterns(ts, m.row, i + 1, keys)

\* Faulty variant of process: rows of any interval are accumulated.
process_AnyInterval(ts, r, keys) ==
    IF r.content["lineItem/LineItemType"] # "Usage"
    THEN [timeseries |-> ts, exc |-> ""]
    ELSE ProcessPatterns(ts, r, 1, keys)

\* MetricLedger.process: [timeseries, exc], the ledger after the call and the
\* exception that ended it, if any
process(ts, r, keys) ==
    IF r.content["lineItem/LineItemType"] # "Usage"
    THEN [timeseries |-> ts, exc |-> ""]
    ELSE IF interval(r) # 3600
    THEN [timeseries |-> ts, exc |-> ""]
    ELSE ProcessPatterns(ts, r, 1, keys)

---------------------------------------------------------------------------
(* MetricLedger.output and generate_metrics                                *)

\* the (series, timestamp) pairs the ledger holds
Entries(ts) == UNION {{<<n, t>> : t \in DOMAIN ts[n]} : n \in DOMAIN ts}

\* MetricLedger.output: [lines, exc].  The lines written are kept as a bag,
\* line |-> number of times written: the order in which a dict yields its
\* items is not modelled.  The first format() call that fails ends the
\* output, and every call fails alike.
output(ts, env) ==
    LET pieces == initial_pieces(env)
        line(e) == format(pieces, e[1], e[2], ts[e[1]][e[2]])
    IN  IF Entries(ts) # {} /\ pieces[1] = None
        THEN [lines |-> EmptySeries, exc |-> "TypeError"]
        ELSE [lines |-> [l \in {line(e).ut[1] : e \in Entries(ts)} |->
                            Cardinality({e \in Entries(ts) : line(e).ut[1] = l})],
              exc |-> ""]

\* the rows a CSV file of the model is made of
LedgerRows ==
    {Content(Hour1, "Usage", "USW1-BoxUsage:m4.2xlarge", "", "0.5",
             "US West (N. California)", ""),
     Content(Hour1, "Usage", "USW1-BoxUsage:m4.2xlarge", "", "1.25",
             "US West (N. California)", ""),
     Content(Hour2, "Usage", "USW1-BoxUsage:m4.2xlarge", "", "0.75",
             "US West (N. California)", ""),
     Content(Hour1, "Tax", "USW1-BoxUsage:m4.2xlarge", "", "9.0",
             "US West (N. California)", ""),
     Content(TwoHours, "Usage", "USW1-BoxUsage:m4.2xlarge", "", "30.0",
             "US West (N. California)", ""),
     Content(Hour1, "Usage", "USW1-RDS:GP2-Storage",
             "$0.11 per GB-month of magnetic storage", "2.0",
             "US West (N. California)", ""),
     Content(Hour1, "Usage", "USW1-DataTransfer-Out-Bytes", "", "0.125",
             "US West (N. California)", ""),
     Content(Hour1, "Usage", "NodeUsage:cache.m3.medium", "", "-0.25",
             "Any", "us-east-1")}

\* the longest CSV file of the model, in rows
MaxRows == 3

\* what os.getenv("AWSBILL_METRIC_PREFIX") may return
PrefixEnvs == {None, Some(""), Some("aws")}

Init ==
    /\ stream \in UNION {[1..n -> LedgerRows] : n \in 0..MaxRows}
    /\ processed = << >>
    /\ timeseries = EmptyLedger
    /\ pc = "reading"
    /\ sink = EmptySeries
    /\ RowIdle
    /\ ManifestIdle

\* one turn of the loop of generate_metrics: a Row is made of the next line
\* and processed; an exception leaves generate_metrics
ProcessRow ==
    /\ pc = "reading"
    /\ stream # << >>
    /\ \E keys \in RdsKeyOrders :
          LET res == process(timeseries, NewRow(Head(stream)), keys)
          IN  /\ timeseries' = res.timeseries
              /\ IF res.exc = ""
                 THEN processed' = Append(processed, Head(stream)) /\ pc' = pc
                 ELSE processed' = processed /\ pc' = "failed"
    /\ stream' = Tail(stream)
    /\ UNCHANGED <<row, calls, outcome, sink, objects, primaries>>

\* Faulty variant of Output: the ledger is written while rows are left to read.
Output_Early ==
    /\ pc = "reading"
    /\ \E env \in PrefixEnvs :
          LET res == output(timeseries, env)
          IN  /\ sink' = res.lines
              /\ pc' = IF res.exc = "" /\ stream = << >> THEN "done"
                       ELSE IF res.exc = "" THEN pc ELSE "failed"
    /\ UNCHANGED <<row, calls, outcome, stream, processed, timeseries, objects,
                   primaries>>

\* the end of generate_metrics: ledger.output(output_file)
Output ==
    /\ pc = "reading"
    /\ stream = << >>
    /\ \E env \in PrefixEnvs :
          LET res == output(timeseries, env)
          IN  /\ sink' = res.lines
              /\ pc' = IF res.exc = "" THEN "done" ELSE "failed"
    /\ UNCHANGED <<row, calls, outcome, stream, processed, timeseries, objects,
                   primaries>>

Next == ProcessRow \/ Output

Spec == Init /\ [][Next]_vars

---------------------------------------------------------------------------
(* What the specification says of the classifier, stated without the code  *)

\* a region-code token: 4 characters, capitals or digits, the first two one
\* of US, EU, AP, SA, the 4th a digit
RegionToken(t) ==
    /\ Len(t) = 4
    /\ SubSeq(t, 1, 2) \in {"US", "EU", "AP", "SA"}
    /\ \A i \in 1..4 : CharIn(Char(t, i), UpperCase \o "0123456789")
    /\ CharIn(Char(t, 4), "0123456789")

\* u is <R>-<rest> for a region-code token R
HasRegionToken(u) ==
    LET parts == split1(u, "-") IN Len(parts) = 2 /\ RegionToken(parts[1])

\* u begins with no region-code token, with or without a dash after it
NoRegionToken(u) == ~RegionToken(split1(u, "-")[1])

\* u without its region-code token and separator
Stripped(u) == IF HasRegionToken(u) THEN split1(u, "-")[2] ELSE u

\* the text after the first ':' with dots replaced by dashes
InstanceType(u) == replace(split1(u, ":")[2], ".", "-")

IsEbsStorage(u) == startswith(u, "EBS:VolumeUsage")

IsRdsStorage(u) == startswith(u, "RDS:") /\ endswith(u, "Storage")

\* the rule table, but for the EBS and RDS storage rules
TableCategory(u) ==
    CASE startswith(u, "BoxUsage:") -> "ec2-instance." \o InstanceType(u)
      [] u = "EBS:VolumeP-IOPS.piops" -> "ebs.piops"
      [] u = "EBS:VolumeIOUsage" -> "ebs.iops"
      [] u = "EBS:SnapshotUsage" -> "ebs.snapshot"
      [] startswith(u, "InstanceUsage:") \/ startswith(u, "Multi-AZUsage:") ->
            "rds-instance." \o InstanceType(u)
      [] u = "RDS:PIOPS" \/ u = "RDS:Multi-AZ-PIOPS" -> "rds.piops"
      [] startswith(u, "NodeUsage:") -> "elasticache-instance." \o InstanceType(u)
      [] OTHER -> ""

VolumeImage(v) ==
    CASE v = "Magnetic" -> "standard"
      [] v = "General Purpose" -> "gp2"
      [] v = "Provisioned IOPS" -> "io1"
      [] v = "Unknown Storage" -> "unknown"

HasIo1Phrase(c) ==
    contains(c["lineItem/LineItemDescription"], "Provisioned IOPS Storage")

HasGp2Phrase(c) ==
    contains(c["lineItem/LineItemDescription"], "provisioned GP2 storage")

\* the rule table gives usage type u of a row with columns c one category
CategoryDefined(u, c) ==
    /\ IsEbsStorage(u) =>
          \/ "product/volumeType" \notin DOMAIN c
          \/ c["product/volumeType"] \in
                {"Magnetic", "General Purpose", "Provisioned IOPS",
                 "Unknown Storage"}
    /\ IsRdsStorage(u) => (HasIo1Phrase(c) /\ ~HasGp2Phrase(c))
                          \/ (HasGp2Phrase(c) /\ ~HasIo1Phrase(c))

\* the category the whole rule table gives, where CategoryDefined
Category(u, c) ==
    IF IsEbsStorage(u)
    THEN IF "product/volumeType" \in DOMAIN c
         THEN "ebs.storage." \o VolumeImage(c["product/volumeType"])
         ELSE "ebs.storage.unknown"
    ELSE IF IsRdsStorage(u)
    THEN IF HasIo1Phrase(c) THEN "rds.storage.io1" ELSE "rds.storage.gp2"
    ELSE TableCategory(u)

RawUsageType == row.content["lineItem/UsageType"]

\* the first call made on row was usage_type(), and nothing else was called
FirstUsageTypeCall == calls = 1 /\ outcome.op = "usage_type"

ReturnedString(x) == outcome.exc = "" /\ outcome.ut = Some(x)

---------------------------------------------------------------------------
(* Claims about Row.usage_type and Row.region, under SpecRow               *)

\* C3: for a usage type without a leading region-code token, usage_type()
\* returns the category the rule table gives for the string (ec2-instance,
\* ebs.piops, ebs.iops, ebs.snapshot, rds-instance, rds.piops,
\* elasticache-instance), and "" when no rule matches.
C3_TableCategoryWithoutToken ==
    (/\ FirstUsageTypeCall
     /\ NoRegionToken(RawUsageType)
     /\ ~IsEbsStorage(RawUsageType)
     /\ ~IsRdsStorage(RawUsageType))
    => ReturnedString(TableCategory(RawUsageType))

\* C4: for a usage type <R>-<rest> with R a region-code token, usage_type()
\* returns the rule-table category of <rest>.
C4_TokenDropped ==
    (/\ FirstUsageTypeCall
     /\ HasRegionToken(RawUsageType)
     /\ CategoryDefined(Stripped(RawUsageType), row.content))
    => ReturnedString(Category(Stripped(RawUsageType), row.content))

\* C4's case: "APN1-BoxUsage:m4.2xlarge" was classified as
\* ec2-instance.m4-2xlarge
C4_Witness ==
    /\ FirstUsageTypeCall
    /\ RawUsageType = "APN1-BoxUsage:m4.2xlarge"
    /\ ReturnedString("ec2-instance.m4-2xlarge")

UnknownLocation == row.content["product/location"] \notin DOMAIN REGION_NAMES

Zone == row.content["lineItem/AvailabilityZone"]

\* az is a region code (it ends in a digit) followed by one zone letter
ZoneOfRegion(az) ==
    /\ Len(az) >= 2
    /\ CharIn(Char(az, Len(az)), LowerCase)
    /\ CharIn(Char(az, Len(az) - 1), "0123456789")

\* C5 as claimed: with an unknown location, region() returns the region code
\* of an availability zone such as "us-east-1a" ("us-east-1"), and
\* "noregion" for an empty availability zone.
C5_RegionOfZone ==
    (outcome.op = "region" /\ UnknownLocation)
    => /\ ZoneOfRegion(Zone) => ReturnedString(SubSeq(Zone, 1, Len(Zone) - 1))
       /\ Zone = "" => ReturnedString("noregion")

\* C5 as amended: with an unknown location, region() returns "noregion" for
\* an availability zone that is a region code followed by a zone letter, and
\* "noregion" for an empty availability zone.
C5_ZoneIsNoRegion ==
    (outcome.op = "region" /\ UnknownLocation)
    => /\ ZoneOfRegion(Zone) => ReturnedString("noregion")
       /\ Zone = "" => ReturnedString("noregion")

\* C5's case: region() was called with an unknown location and the zone
\* "us-east-1a"
C5_Witness ==
    /\ outcome.op = "region"
    /\ UnknownLocation
    /\ Zone = "us-east-1a"
    /\ ReturnedString("noregion")

\* C6: region() returns the table's region code when the location is a key
\* of the table, whatever the availability zone; otherwise the availability
\* zone itself when it is non-empty and ends in a digit; otherwise
\* "noregion".
C6_RegionOrder ==
    outcome.op = "region"
    => ReturnedString(
          IF ~UnknownLocation
          THEN REGION_NAMES[row.content["product/location"]]
          ELSE IF Zone # "" /\ CharIn(Char(Zone, Len(Zone)), "0123456789")
          THEN Zone
          ELSE "noregion")

\* C6's case: a known location won over an availability zone of another
\* region
C6_Witness ==
    /\ outcome.op = "region"
    /\ row.content["product/location"] = "US West (Oregon)"
    /\ Zone = "us-east-1"
    /\ ReturnedString("us-west-2")

\* C7: for a usage type that, without its region-code token, starts with
\* "RDS:" and ends with "Storage", usage_type() returns rds.storage.io1 when
\* the description contains "Provisioned IOPS Storage", rds.storage.gp2 when
\* it contains "provisioned GP2 storage", and fails when it contains neither.
\* (A description with both phrases is left out: the claim names no winner.)
C7_RdsStorage ==
    (/\ FirstUsageTypeCall
     /\ IsRdsStorage(Stripped(RawUsageType))
     /\ ~(HasIo1Phrase(row.content) /\ HasGp2Phrase(row.content)))
    => /\ HasIo1Phrase(row.content) => ReturnedString("rds.storage.io1")
       /\ HasGp2Phrase(row.content) => ReturnedString("rds.storage.gp2")
       /\ (~HasIo1Phrase(row.content) /\ ~HasGp2Phrase(row.content))
             => outcome.exc = "ValueError"

\* C8: for a usage type that, without its region-code token, starts with
\* "EBS:VolumeUsage", usage_type() returns "ebs.storage." and the table's
\* image of the volume type (standard, gp2, io1, unknown), and
\* ebs.storage.unknown for a row without a volume-type column.
C8_EbsStorage ==
    (FirstUsageTypeCall /\ IsEbsStorage(Stripped(RawUsageType)))
    => /\ "product/volumeType" \notin DOMAIN row.content
             => ReturnedString("ebs.storage.unknown")
       /\ \A v \in {"Magnetic", "General Purpose", "Provisioned IOPS",
                    "Unknown Storage"} :
             ("product/volumeType" \in DOMAIN row.content
              /\ row.content["product/volumeType"] = v)
             => ReturnedString("ebs.storage." \o VolumeImage(v))

\* C8's case: a General Purpose volume behind a region code was classified
\* as ebs.storage.gp2
C8_Witness ==
    /\ FirstUsageTypeCall
    /\ RawUsageType = "USW2-EBS:VolumeUsage.gp2"
    /\ "product/volumeType" \in DOMAIN row.content
    /\ row.content["product/volumeType"] = "General Purpose"
    /\ ReturnedString("ebs.storage.gp2")

\* C15: usage_type() is memoized: every call made on a Row yields the
\* outcome of the first call on a Row of these columns, the same string or
\* the same classification failure.
C15_EveryCallAsTheFirst ==
    outcome.op = "usage_type"
    => \E keys \in RdsKeyOrders :
          LET first == usage_type(NewRow(row.content), keys)
          IN  outcome.ut = first.ut /\ outcome.exc = first.exc

\* the row is an RDS storage line whose description holds neither phrase
RdsStorageWithoutPhrase ==
    /\ IsRdsStorage(Stripped(RawUsageType))
    /\ ~HasIo1Phrase(row.content)
    /\ ~HasGp2Phrase(row.content)

\* C17: classification fails only for RDS storage lines whose description
\* matches neither phrase: on every other record, whatever its usage-type
\* string and its volume type, usage_type() returns a string and does not
\* fail.
C17_FailsOnlyForRdsStorage ==
    (FirstUsageTypeCall /\ ~RdsStorageWithoutPhrase)
    => (outcome.exc = "" /\ outcome.ut # None)

---------------------------------------------------------------------------
(* Claims about MetricLedger.process, under Spec                           *)

\* the names pattern p gives for a row with columns c, when it matches
PatternNames(p, c, keys) ==
    LET m == match(p, NewRow(c), keys)
        names == metric_names(p, m.row, keys)
    IN  IF m.exc = "" /\ m.matched
        THEN {names[j] : j \in 1..Len(names)}
        ELSE {}

\* the series that the matching patterns of the ledger name for the row
SeriesOf(c) ==
    UNION {PatternNames(new_metric_ledger[i], c, keys) :
              i \in 1..Len(new_metric_ledger), keys \in RdsKeyOrders}

\* what a processed row with columns c adds to the ledger according to the
\* claim: its amount, to the series names, at the time t (None: nothing)
Contribution(c) ==
    IF c["lineItem/LineItemType"] = "Usage" /\ interval(NewRow(c)) = 3600
    THEN [names |-> SeriesOf(c), t |-> <<end_time(NewRow(c))>>,
          a |-> amount(NewRow(c))]
    ELSE [names |-> {}, t |-> << >>, a |-> 0]

\* the contributions of the rows a CSV file is made of, tabulated
ContributionOf == [c \in LedgerRows |-> Contribution(c)]

\* the contribution k counts for series n at time t
Counts(k, n, t) == n \in k.names /\ k.t = <<t>>

\* the processed row with columns c counts for series n at time t
CountsFor(c, n, t) == Counts(ContributionOf[c], n, t)

RECURSIVE SumOfAmounts(_, _, _, _)
\* the sum of the amounts of the first i contributions that count for n at t
SumOfAmounts(ks, n, t, i) ==
    IF i = 0 THEN 0
    ELSE SumOfAmounts(ks, n, t, i - 1)
         + (IF Counts(ks[i], n, t) THEN ks[i].a ELSE 0)

\* C1: after any sequence of process() calls on a fresh ledger, every value
\* ledger[n][ts] is the sum of amount() over the processed records of type
\* "Usage", of an interval of 3600 seconds, ending at ts, with a matching
\* pattern that names n; and the ledger holds an entry for (n, ts) exactly
\* when there is such a record.
C1_LedgerIsSumOfAmounts ==
    LET ks == [i \in 1..Len(processed) |-> ContributionOf[processed[i]]]
    IN  /\ \A e \in Entries(timeseries) :
              /\ timeseries[e[1]][e[2]] = SumOfAmounts(ks, e[1], e[2], Len(processed))
              /\ \E i \in 1..Len(processed) : Counts(ks[i], e[1], e[2])
        /\ \A i \in 1..Len(processed) :
              \A n \in ks[i].names : <<n, ks[i].t[1]>> \in Entries(timeseries)

\* C1's case: two records of one hour and one series were processed and the
\* series holds their sum for that hour, 0.5 + 1.25
C1_Witness ==
    /\ Len(processed) >= 2
    /\ processed[1] # processed[2]
    /\ CountsFor(processed[1], "us-west-1.ec2-instance.m4-2xlarge",
                 <<2016, 4, 4, 6, 0, 0>>)
    /\ CountsFor(processed[2], "us-west-1.ec2-instance.m4-2xlarge",
                 <<2016, 4, 4, 6, 0, 0>>)
    /\ <<"us-west-1.ec2-instance.m4-2xlarge", <<2016, 4, 4, 6, 0, 0>>>>
          \in Entries(timeseries)
    /\ timeseries["us-west-1.ec2-instance.m4-2xlarge"][<<2016, 4, 4, 6, 0, 0>>]
          = 1750000

\* the next record of the stream is one process() skips
NextRowIsSkipped ==
    /\ pc = "reading"
    /\ stream # << >>
    /\ \/ Head(stream)["lineItem/LineItemType"] # "Usage"
       \/ interval(NewRow(Head(stream))) # 3600

\* C9: process(record) leaves every accumulator of the ledger unchanged, no
\* value modified and no key added, for a record whose lineItemType is not
\* "Usage" and for a record whose interval is not 3600 seconds.
C9_SkippedRecordsLeaveLedger ==
    [][NextRowIsSkipped => timeseries' = timeseries]_vars

\* C9's case: a ledger that holds values has processed a record that is not
\* of type "Usage" and a "Usage" record of another interval
C9_Witness ==
    /\ timeseries # EmptyLedger
    /\ \E i \in 1..Len(processed) :
          processed[i]["lineItem/LineItemType"] # "Usage"
    /\ \E i \in 1..Len(processed) :
          /\ processed[i]["lineItem/LineItemType"] = "Usage"
          /\ interval(NewRow(processed[i])) # 3600

\* the record passes both filters of process()
PassesFilters(c) ==
    /\ c["lineItem/LineItemType"] = "Usage"
    /\ interval(NewRow(c)) = 3600

\* the next record of the stream is one process() does not skip
NextRowIsAccumulated ==
    /\ pc = "reading"
    /\ stream # << >>
    /\ PassesFilters(Head(stream))

\* the value the ledger ts holds for the entry e, 0.0 where it holds none
ValueAt(ts, e) == IF e \in Entries(ts) THEN ts[e[1]][e[2]] ELSE 0

\* the entries of the ledger new that the ledger old lacks or holds with
\* another value
Touched(old, new) ==
    {e \in Entries(new) : e \notin Entries(old) \/ new[e[1]][e[2]] # old[e[1]][e[2]]}

\* the record's usage type is classified as the empty string
Unrecognized(c) ==
    \E keys \in RdsKeyOrders :
        LET u == usage_type(NewRow(c), keys)
        IN  u.exc = "" /\ u.ut = Some("")

\* between the ledgers old and new the record with columns c has added its
\* amount to "total-cost.<region>" at its end time and to at most one other
\* series, "<region>.<usage type>", and to the former alone if its usage
\* type is unrecognized
AddsToTotalAndOneSeries(c, old, new) ==
    LET r == NewRow(c)
        total == <<"total-cost." \o region(r), end_time(r)>>
        others == Touched(old, new) \ {total}
    IN  /\ total \in Entries(new)
        /\ ValueAt(new, total) = ValueAt(old, total) + amount(r)
        /\ Cardinality(others) <= 1
        /\ \A e \in others :
              /\ e[2] = end_time(r)
              /\ ValueAt(new, e) = ValueAt(old, e) + amount(r)
              /\ \E keys \in RdsKeyOrders :
                    LET u == usage_type(r, keys)
                    IN  /\ u.exc = ""
                        /\ u.ut # None
                        /\ u.ut # Some("")
                        /\ e[1] = region(r) \o "." \o u.ut[1]
        /\ Unrecognized(c) => others = {}

AboutToOutput == pc = "reading" /\ stream = << >>

\* a value that is a whole number of ten-thousandths, written with exactly
\* four fractional digits
FourDigits(v) ==
    LET a == IF v < 0 THEN 0 - v ELSE v
        frac == str((a % 1000000) \div 100)
    IN  (IF v < 0 THEN "-" ELSE "") \o str(a \div 1000000) \o "."
        \o SubSeq("0000", 1, 4 - Len(frac)) \o frac

\* the line "<prefix>.<metric-name> <value> <unix-timestamp>\n" of the entry e
\* of the ledger ts, the value with four fractional digits
LineOf(prefix, ts, e) ==
    prefix \o "." \o e[1] \o " " \o FourDigits(ts[e[1]][e[2]]) \o " "
    \o strftime_s(e[2]) \o "\n"

\* the prefixes of the metric names: the configured one, or the default
Prefixes == {"aws", "awsbill"}

\* lines, the lines written, are one line per entry of the ledger ts, each
\* of the form of LineOf
OneLinePerEntry(ts, lines) ==
    /\ \A l \in DOMAIN lines : lines[l] = 1
    /\ Cardinality(DOMAIN lines) = Cardinality(Entries(ts))
    /\ \E prefix \in Prefixes :
          \A e \in Entries(ts) : LineOf(prefix, ts, e) \in DOMAIN lines

\* C13: MetricLedger.output() writes exactly one line per (metric name,
\* timestamp) pair of the ledger, each of the form
\* "<prefix>.<metric-name> <value> <unix-timestamp>\n", the value rendered
\* with exactly 4 fractional digits.
C13_OneFormattedLinePerEntry ==
    [][AboutToOutput => OneLinePerEntry(timeseries, sink')]_vars

\* C14: in a run of generate_metrics the ledger is flushed once and only
\* after every record of the stream has been processed: a line is in the sink
\* only when no record is left and generate_metrics is done, a run in which
\* processing a record failed has written no line, and what was written is
\* never written again or changed.
C14_FlushedOnceAtTheEnd ==
    /\ [](/\ sink # EmptySeries => (stream = << >> /\ pc = "done")
          /\ pc = "failed" => sink = EmptySeries
          /\ \A l \in DOMAIN sink : sink[l] = 1)
    /\ [][sink # EmptySeries => sink' = sink]_vars

\* C14's case: a run over three records has ended and has written lines
C14_Witness ==
    /\ pc = "done"
    /\ Len(processed) = 3
    /\ Cardinality(DOMAIN sink) >= 2
    /\ Cardinality(DOMAIN sink) = Cardinality(Entries(timeseries))

\* the step is a process() call that a classification error ends
ProcessFails == pc = "reading" /\ stream # << >> /\ pc' = "failed"

\* C16: a process(record) call that fails with a classification error
\* leaves the ledger exactly as it was: no pattern, the catch-all total
\* included, has accumulated an amount for the record, and no metric name or
\* timestamp key was added.
C16_FailedProcessLeavesLedger ==
    [][ProcessFails => timeseries' = timeseries]_vars

\* C16's case: a ledger that holds values has met a record whose
\* classification failed, with records left to read
C16_Witness ==
    /\ pc = "failed"
    /\ stream # << >>
    /\ Len(processed) >= 1
    /\ timeseries # EmptyLedger

---------------------------------------------------------------------------
(* SpecManifest: s3_primary_manifests on one bucket listing                *)

Cycle3 == "prefix/hourly_billing/20160301-20160401/"

Cycle4 == "prefix/hourly_billing/20160401-20160501/"

Cycle5 == "prefix/hourly_billing/20160501-20160601/"

\* the keys a listing of the model is made of: primary manifests and
\* manifests of single uploads of three cycles, a report file, and two
\* manifests outside any well-named cycle directory
KeyPool ==
    {Cycle3 \o "hourly_billing-Manifest.json",
     Cycle4 \o "hourly_billing-Manifest.json",
     Cycle4 \o "11c0a000/hourly_billing-Manifest.json",
     Cycle5 \o "hourly_billing-Manifest.json",
     Cycle5 \o "2e6de863/hourly_billing-Manifest.json",
     Cycle5 \o "2e6de863/hourly_billing-1.csv.gz",
     "prefix/hourly_billing/hourly_billing-Manifest.json",
     "prefix/hourly_billing/2016050-20160601/hourly_billing-Manifest.json"}

\* the longest listing of the model, in objects
MaxObjects == 3

\* the listings: the keys of KeyPool, each at most once, in any order
Listings ==
    {s \in UNION {[1..n -> KeyPool] : n \in 0..MaxObjects} :
        \A i, j \in 1..Len(s) : i # j => s[i] # s[j]}

InitManifest ==
    /\ objects \in Listings
    /\ primaries = NoPrimaries
    /\ RowIdle
    /\ LedgerIdle

\* primaries = s3_primary_manifests(bucket.objects.all())
CallPrimaryManifests ==
    /\ ~primaries.called
    /\ LET res == s3_primary_manifests(objects)
       IN  primaries' = [called |-> TRUE, keys |-> res.keys, exc |-> res.exc]
    /\ UNCHANGED <<row, calls, outcome, stream, processed, timeseries, pc,
                   sink, objects>>

NextManifest == CallPrimaryManifests

SpecManifest == InitManifest /\ [][NextManifest]_vars

---------------------------------------------------------------------------
(* Claims about s3_primary_manifests, under SpecManifest                   *)

\* the manifests of the listing
ListedManifests ==
    {objects[i] : i \in {j \in 1..Len(objects) :
                            endswith(objects[j], "Manifest.json")}}

\* the manifests of the listing that carry the date-range label l
ManifestsOfCycle(l) == {m \in ListedManifests : re_search(m) = Some(l)}

\* the date-range labels the manifests of the listing carry
ListedCycles ==
    {re_search(m)[1] : m \in {k \in ListedManifests : re_search(k) # None}}

\* the shortest-keyed manifests of cycle l
Primaries(l) ==
    {m \in ManifestsOfCycle(l) : \A k \in ManifestsOfCycle(l) : Len(m) <= Len(k)}

\* the largest label of a set of labels
Latest(S) == CHOOSE x \in S : \A y \in S : ~StrLess(x, y)

\* C2: with two or more distinct labels among the manifests,
\* s3_primary_manifests returns exactly [P_old, P_new], the shortest-keyed
\* manifest of the second-largest label and then that of the largest; with
\* one label it returns the shortest-keyed manifest of that cycle alone.
C2_PrimariesOfLastCycles ==
    (primaries.called /\ ListedCycles # {})
    => /\ primaries.exc = ""
       /\ IF Cardinality(ListedCycles) >= 2
          THEN /\ Len(primaries.keys) = 2
               /\ primaries.keys[2] \in Primaries(Latest(ListedCycles))
               /\ primaries.keys[1] \in
                     Primaries(Latest(ListedCycles \ {Latest(ListedCycles)}))
          ELSE /\ Len(primaries.keys) = 1
               /\ primaries.keys[1] \in Primaries(Latest(ListedCycles))

\* C10: s3_primary_manifests fails with its resolution error exactly when no
\* manifest key of the listing yields a date-range token (an empty listing
\* and a listing without manifests included), and otherwise returns a
\* non-empty result.
C10_FailsWithoutCycle ==
    primaries.called
    => /\ primaries.exc = "Exception" <=> ListedCycles = {}
       /\ ListedCycles # {} => (primaries.exc = "" /\ Len(primaries.keys) >= 1)
       /\ primaries.exc \in {"", "Exception"}

\* C10's case: the call failed on a listing that holds a manifest outside any
\* cycle directory and a report file inside one
C10_Witness ==
    /\ primaries.called
    /\ primaries.exc = "Exception"
    /\ \E i \in 1..Len(objects) : endswith(objects[i], "Manifest.json")
    /\ \E i \in 1..Len(objects) :
          /\ re_search(objects[i]) # None
          /\ ~endswith(objects[i], "Manifest.json")

\* the listings that hold the same keys as l, in every order
Reorderings(l) ==
    {s \in [1..Len(l) -> {l[i] : i \in 1..Len(l)}] :
        \A i, j \in 1..Len(l) : i # j => s[i] # s[j]}

\* C11: the result of s3_primary_manifests depends on the keys listed only,
\* not on the order of the listing: on every reordering of the listing it
\* returns the same list of keys, in the same order (or fails the same way).
C11_OrderOfListingIrrelevant ==
    primaries.called
    => \A l \in Reorderings(objects) :
          s3_primary_manifests(l) = [keys |-> primaries.keys, exc |-> primaries.exc]

\* C11's case: two primaries were returned from a listing that names the
\* newer of them before the older
C11_Witness ==
    /\ primaries.called
    /\ primaries.exc = ""
    /\ Len(primaries.keys) = 2
    /\ \E i, j \in 1..Len(objects) :
          /\ i < j
          /\ objects[i] = primaries.keys[2]
          /\ objects[j] = primaries.keys[1]
    /\ Len(primaries.keys[1]) = Len(primaries.keys[2])

=============================================================================
